---- MODULE Spec2Model ----
(***************************************************************************)
(* Model of text_overlay.py: overlay_text_on_image (the image annotator)   *)
(* and process_file (the tabular driver).                                  *)
(*                                                                         *)
(* Two specifications:                                                     *)
(*   OverlaySpec : one call of overlay_text_on_image, stepped through its  *)
(*                 sizing, shrink loop, layout and save, over a grid of    *)
(*                 image widths, heights and title lengths.                *)
(*   Spec        : process_file run twice in a row over every table of at  *)
(*                 most MaxRows rows; each row's call of the annotator is  *)
(*                 the operator Overlay, built from the same helpers.      *)
(*                                                                         *)
(* Floating point: int(width*0.05) = width \div 20, int(width*0.04) =      *)
(* width \div 25 and (title_width > width*0.8) = (10*title_width >         *)
(* 8*width) for all widths of interest; vertical positions are kept        *)
(* multiplied by 500 so that 0.05, 0.02, 0.1, 1.2, 1.5 and /5 are exact.   *)
(***************************************************************************)
EXTENDS Integers, Sequences, FiniteSets, TLC

\* ------------------------------------------------------------------ bounds
MaxRows == 2
MaxWidthK == 21
MaxHeightK == 4
MaxPromptK == 3

\* ------------------------------------------------------- paths and strings
Path(d, s, e) == [dir |-> d, stem |-> s, ext |-> e]

\* Python's None where a path is expected
NonePath == Path(<<>>, <<>>, "None")

\* os.path.basename: the last component, without its directories
basename(p) == Path(<<>>, p.stem, p.ext)

\* os.path.dirname
dirname(p) == p.dir

\* os.path.splitext of a file name: (name, ext)
splitext(f) == <<f.stem, f.ext>>

\* os.path.join(directory, name + "_modified" + ext)
ModifiedIn(d, f) == Path(d, Append(splitext(f)[1], "_modified"), splitext(f)[2])

output_dir == <<"modified_images">>

\* the output written next to the original instead of into output_dir
OutputPath_NextToOriginal(image_path) == ModifiedIn(dirname(image_path), basename(image_path))

\* process_file's per-row output path
OutputPath(image_path) == ModifiedIn(output_dir, basename(image_path))

\* overlay_text_on_image's own default when output_path is None
DefaultOutputPath(image_path) == ModifiedIn(dirname(image_path), basename(image_path))

results_path == Path(output_dir, <<"processing_results">>, ".csv")

\* str.lower on one character
LowerChar(c) ==
    CASE c = "T" -> "t"
      [] c = "M" -> "m"
      [] c = "W" -> "w"
      [] OTHER -> c

lower(s) == [i \in 1..Len(s) |-> LowerChar(s[i])]

TitlePrefix == <<"S","h","o","w"," ","m","e"," ","s","t","e","p","s"," ","f","o","r"," ">>

\* f"Show me steps for {prompt_text.lower()}"
title_text(prompt) == TitlePrefix \o lower(prompt)

\* ------------------------------------------------------------ font sizing
Max(a, b) == IF a >= b THEN a ELSE b
Min(a, b) == IF a <= b THEN a ELSE b

\* max(20, min(int(width * 0.05), 80))
ClampTitle(w) == Max(20, Min(w \div 20, 80))

\* max(16, min(int(width * 0.04), 60))
ClampBullet(w) == Max(16, Min(w \div 25, 60))

\* draw.textbbox width of a text of n glyphs: a TrueType font advances half
\* an em per glyph on average; the built-in default font is a fixed-size
\* font of 6 pixels per glyph whatever size was asked for.
Measure(n, size, truetype) == IF truetype THEN (n * size) \div 2 ELSE n * 6

\* title_width > width * 0.8
TooWide(tw, w) == 10 * tw > 8 * w

\* the while condition of the shrink loop
ShrinkGuard(tw, w, size) == TooWide(tw, w) /\ size > 16

\* -------------------------------------------------------------- layout
\* all vertical quantities are multiplied by 500
\* y_position = height * 0.05
YPosition(h) == 25 * h

\* bullet_y_start = y_position + title_font_size * 1.2 + height * 0.02
BulletYStart(h, tfs) == YPosition(h) + 600 * tfs + 10 * h

\* available_height = height - bullet_y_start - height * 0.1
AvailableHeight(h, tfs) == 500 * h - BulletYStart(h, tfs) - 50 * h

\* (available_height / 5) is exact at this scale: 415h - 600t = 5 (83h - 120t)
BulletSpacing(h, tfs, bfs) == Min(750 * bfs, AvailableHeight(h, tfs) \div 5)

\* y of bullet i: bullet_y_start + (i-1) * bullet_spacing
BulletY(i, start, spacing) == start + (i - 1) * spacing

\* extensions img.save can derive a format from
SaveableExts == {".png", ".jpg"}

\* ------------------------------------------------------------ file system
\* a file's content: an image with the text layers drawn on it so far, a
\* file that is not an image, or the summary table
ImageFile(w, h, layers) ==
    [kind |-> "image", w |-> w, h |-> h, layers |-> layers, columns |-> <<>>, rows |-> <<>>]

DataFile == [kind |-> "data", w |-> 0, h |-> 0, layers |-> <<>>, columns |-> <<>>, rows |-> <<>>]

TableFile(columns, rows) ==
    [kind |-> "csv", w |-> 0, h |-> 0, layers |-> <<>>, columns |-> columns, rows |-> rows]

\* fs with file p (re)written
WriteFile(fs, p, c) == [q \in DOMAIN fs \cup {p} |-> IF q = p THEN c ELSE fs[q]]

\* Image.open succeeds: the file exists and decodes
CanOpen(fs, p) == p \in DOMAIN fs /\ fs[p].kind = "image"

\* a save that refuses to replace an existing file
CanSave_NoOverwrite(fs, dirs, out) ==
    out.ext \in SaveableExts /\ out.dir \in dirs /\ out \notin DOMAIN fs

\* img.save(output_path) succeeds: the format follows from the extension
\* and the directory exists; an existing file is overwritten
CanSave(fs, dirs, out) == out.ext \in SaveableExts /\ out.dir \in dirs

\* ------------------------------------------- the annotator as an operator
\* the shrink loop, lines 44-48; -1 when ImageFont.truetype raises in it
RECURSIVE ShrinkLoop(_, _, _, _, _)
ShrinkLoop(size, tw, w, n, avail) ==
    IF ShrinkGuard(tw, w, size)
    THEN IF avail
         THEN ShrinkLoop(size - 2, Measure(n, size - 2, TRUE), w, n, avail)
         ELSE -1
    ELSE size

\* what is drawn: title and five bullet placeholders
Layer(title, tfs, bfs, truetype, h) ==
    [title |-> title, title_font_size |-> tfs, bullet_font_size |-> bfs,
     truetype |-> truetype,
     bullet_y_start |-> BulletYStart(h, tfs),
     bullet_spacing |-> BulletSpacing(h, tfs, bfs)]

\* a cell of the table: a string, a number, or NaN (empty)
StrCell(v) == [kind |-> "str", val |-> v]
NumCell(v) == [kind |-> "num", val |-> v]
NaNCell(v) == [kind |-> "nan", val |-> v]

\* overlay_text_on_image(image_path, prompt_text, output_path): the
\* returned path (NonePath for None) and the file system it leaves
Overlay(fs, dirs, image_path, prompt_text, output_path, avail) ==
    LET out == IF output_path = NonePath THEN DefaultOutputPath(image_path)
               ELSE output_path
        fail == [ret |-> NonePath, fs |-> fs]
    IN  IF ~CanOpen(fs, image_path) THEN fail
        ELSE IF prompt_text.kind # "str" THEN fail
        ELSE
          LET img == fs[image_path]
              title == title_text(prompt_text.val)
              t0 == ClampTitle(img.w)
              tfs == ShrinkLoop(t0, Measure(Len(title), t0, avail), img.w, Len(title), avail)
          IN  IF tfs = -1 THEN fail
              ELSE IF ~CanSave(fs, dirs, out) THEN fail
              ELSE [ret |-> out,
                    fs |-> WriteFile(fs, out,
                             ImageFile(img.w, img.h,
                               Append(img.layers,
                                 Layer(title, tfs, ClampBullet(img.w), avail, img.h))))]

\* ---------------------------------------------------------------- state
VARIABLES
    \* process_file
    file_ext,      \* extension of file_path
    columns,       \* column names of df
    table,         \* rows of df, in order
    fontAvail,     \* arial.ttf can be loaded
    fs,            \* files on disk: path -> content
    dirs,          \* directories on disk
    pc,            \* "start", "rows", "done" (returned), "raised"
    idx,           \* position of the row loop, 1-based
    results,       \* the results list
    run,           \* 1 for the first run of process_file, 2 for the re-run
    fs0,           \* fs when the current run started
    fs1,           \* fs when the first run ended
    calls,         \* rows the annotator was invoked for, this run
    outcomes,      \* per handled row, this run: skipped / what the annotator returned
    \* overlay_text_on_image, stepped
    opc,           \* "idle", "call", "sized", "shrink", "save", "returned"
    image_path, prompt_text, output_path,    \* the arguments
    width, height,
    title_font_size, bullet_font_size,
    truetype,      \* font_title is a TrueType font (not the default font)
    title_text_v,  \* title_text
    title_width,
    bullet_y_start, bullet_spacing,          \* times 500
    start_size,    \* title_font_size when the shrink loop was reached
    iters,         \* iterations of the shrink loop so far
    sizes,         \* the sizes the loop left because the title was too wide
    ret            \* returned path, NonePath for None

pvars == <<file_ext, columns, table, fs, dirs, pc, idx, results, run, fs0, fs1,
           calls, outcomes>>

ovars == <<opc, image_path, prompt_text, output_path, width, height,
           title_font_size, bullet_font_size, truetype, title_text_v, title_width,
           bullet_y_start, bullet_spacing, start_size, iters, sizes, ret>>

vars == <<pvars, ovars, fontAvail>>

\* ---------------------------------------------------------- process_file
image_col == "image_location"
prompt_col == "prompt_text"

PathAX == Path(<<"a">>, <<"x">>, ".png")
PathBX == Path(<<"b">>, <<"x">>, ".png")
PathAN == Path(<<"a">>, <<"n">>, ".png")
PathAY == Path(<<"a">>, <<"y">>, "")

\* the disk before the first run: two images with the same file name in
\* different directories, a file that is not an image, an image whose name
\* has no extension; modified_images does not exist yet
InitFS ==
    [q \in {PathAX, PathBX, PathAN, PathAY} |->
        CASE q = PathAX -> ImageFile(1000, 800, <<>>)
          [] q = PathBX -> ImageFile(100, 60, <<>>)
          [] q = PathAN -> DataFile
          [] OTHER      -> ImageFile(640, 480, <<>>)]

InitDirs == {<<"a">>, <<"b">>}

ImageCells ==
    {StrCell(q) : q \in {PathAX, PathBX, PathAN, PathAY, OutputPath(PathAX)}}
      \cup {NumCell(NonePath), NaNCell(NonePath)}

PromptCells == {StrCell(<<"T", "e", "a">>), NumCell(<<>>), NaNCell(<<>>)}

\* rows of a table with the given columns
RowsOf(cols) ==
    CASE cols = {image_col, prompt_col} ->
           [image_location : ImageCells, prompt_text : PromptCells]
      [] cols = {image_col}  -> [image_location : ImageCells]
      [] cols = {prompt_col} -> [prompt_text : PromptCells]
      [] OTHER -> {[c \in {} |-> NaNCell(<<>>)]}

TablesOf(cols) == UNION {[1..n -> RowsOf(cols)] : n \in 0..MaxRows}

\* file_path.endswith('.csv') or file_path.endswith(('.xls', '.xlsx'))
Supported(ext) == ext = ".csv" \/ ext \in {".xls", ".xlsx"}

\* pd.isna
isna(cell) == cell.kind = "nan"

\* a skip test that only looks at the prompt
IsMissing_PromptOnly(row) == isna(row[prompt_col])

\* the skip test of the row loop
IsMissing(row) == isna(row[image_col]) \/ isna(row[prompt_col])

\* results.append({...})
ResultEntry(original, prompt, result_path) ==
    [original_image |-> original, prompt |-> prompt, modified_image |-> result_path]

\* pd.DataFrame(results).columns: the keys of the dicts; none for an empty list
ColumnsOf(res) ==
    IF res = <<>> THEN <<>> ELSE <<"original_image", "prompt", "modified_image">>

Skipped == [kind |-> "skipped", ret |-> NonePath]
Returned(r) == [kind |-> "returned", ret |-> r]

IdleOverlay ==
    /\ opc = "idle" /\ image_path = NonePath /\ output_path = NonePath
    /\ prompt_text = NaNCell(<<>>)
    /\ width = 0 /\ height = 0 /\ title_font_size = 0 /\ bullet_font_size = 0
    /\ truetype = FALSE /\ title_text_v = <<>> /\ title_width = 0
    /\ bullet_y_start = 0 /\ bullet_spacing = 0
    /\ start_size = 0 /\ iters = 0 /\ sizes = <<>>
    /\ ret = NonePath

Init ==
    /\ file_ext \in {".csv", ".txt"}
    /\ columns \in SUBSET {image_col, prompt_col}
    /\ table \in TablesOf(columns)
    /\ fontAvail \in BOOLEAN
    /\ fs = InitFS /\ dirs = InitDirs
    /\ pc = "start" /\ idx = 1 /\ results = <<>> /\ run = 1
    /\ fs0 = InitFS /\ fs1 = InitFS
    /\ calls = <<>> /\ outcomes = <<>>
    /\ IdleOverlay

\* lines 118-123: neither .csv nor .xls/.xlsx: ValueError
UnsupportedFormat ==
    /\ pc = "start" /\ ~Supported(file_ext)
    /\ pc' = "raised"
    /\ UNCHANGED <<file_ext, columns, table, fs, dirs, idx, results, run, fs0, fs1,
                   calls, outcomes, ovars, fontAvail>>

\* lines 118-142: read the table, (the column check never fires: both names
\* are literals), create the output directory, results = []
Start ==
    /\ pc = "start" /\ Supported(file_ext)
    /\ dirs' = dirs \cup {output_dir}
    /\ results' = <<>> /\ idx' = 1 /\ pc' = "rows"
    /\ UNCHANGED <<file_ext, columns, table, fs, run, fs0, fs1, calls, outcomes,
                   ovars, fontAvail>>

InLoop == pc = "rows" /\ idx <= Len(table)

\* lines 144-145: row[image_col] / row[prompt_col] of an absent column: KeyError
RowKeyError ==
    /\ InLoop
    /\ ~({image_col, prompt_col} \subseteq columns)
    /\ pc' = "raised"
    /\ UNCHANGED <<file_ext, columns, table, fs, dirs, idx, results, run, fs0, fs1,
                   calls, outcomes, ovars, fontAvail>>

\* lines 148-150: missing data: continue
RowSkip ==
    /\ InLoop
    /\ {image_col, prompt_col} \subseteq columns
    /\ IsMissing(table[idx])
    /\ idx' = idx + 1
    /\ outcomes' = Append(outcomes, Skipped)
    /\ UNCHANGED <<file_ext, columns, table, fs, dirs, pc, results, run, fs0, fs1,
                   calls, ovars, fontAvail>>

\* line 153: os.path.basename of a value that is not a string: TypeError,
\* outside any try
RowTypeError ==
    /\ InLoop
    /\ {image_col, prompt_col} \subseteq columns
    /\ ~IsMissing(table[idx])
    /\ table[idx][image_col].kind # "str"
    /\ pc' = "raised"
    /\ UNCHANGED <<file_ext, columns, table, fs, dirs, idx, results, run, fs0, fs1,
                   calls, outcomes, ovars, fontAvail>>

\* lines 153-166: derive the output path, call the annotator, record a
\* result when it returned a path
RowProcess ==
    /\ InLoop
    /\ {image_col, prompt_col} \subseteq columns
    /\ ~IsMissing(table[idx])
    /\ table[idx][image_col].kind = "str"
    /\ LET path == table[idx][image_col].val
           prompt == table[idx][prompt_col]
           o == Overlay(fs, dirs, path, prompt, OutputPath(path), fontAvail)
       IN  /\ fs' = o.fs
           /\ calls' = Append(calls, idx)
           /\ outcomes' = Append(outcomes, Returned(o.ret))
           /\ results' = IF o.ret # NonePath
                         THEN Append(results, ResultEntry(path, prompt.val, o.ret))
                         ELSE results
    /\ idx' = idx + 1
    /\ UNCHANGED <<file_ext, columns, table, dirs, pc, run, fs0, fs1, ovars, fontAvail>>

\* lines 168-173: the summary is written after the last row
Finish ==
    /\ pc = "rows" /\ idx > Len(table)
    /\ fs' = WriteFile(fs, results_path, TableFile(ColumnsOf(results), results))
    /\ pc' = "done"
    /\ UNCHANGED <<file_ext, columns, table, dirs, idx, results, run, fs0, fs1,
                   calls, outcomes, ovars, fontAvail>>

\* process_file is invoked again on the same file_path
Rerun ==
    /\ pc \in {"done", "raised"} /\ run = 1
    /\ run' = 2 /\ fs1' = fs /\ fs0' = fs
    /\ pc' = "start" /\ idx' = 1 /\ results' = <<>>
    /\ calls' = <<>> /\ outcomes' = <<>>
    /\ UNCHANGED <<file_ext, columns, table, fs, dirs, ovars, fontAvail>>

Next ==
    \/ UnsupportedFormat
    \/ Start
    \/ RowKeyError
    \/ RowSkip
    \/ RowTypeError
    \/ RowProcess
    \/ Finish
    \/ Rerun

Spec == Init /\ [][Next]_vars

\* ------------------------------------- overlay_text_on_image, step by step
Widths == {79 * k : k \in 1..MaxWidthK}
Heights == {12 * k * k : k \in 1..MaxHeightK}
PromptOfLen(n) == [i \in 1..n |-> "W"]
Prompts == {StrCell(PromptOfLen(48 * k)) : k \in 0..MaxPromptK} \cup {NumCell(<<>>)}

PathOut == Path(<<"a">>, <<"out">>, ".png")

\* the disk a single call finds: the image, a file that is not an image,
\* or nothing at image_path
DisksFor(p) ==
    {[q \in {p} |-> ImageFile(w, h, <<>>)] : w \in Widths, h \in Heights}
      \cup {[q \in {p} |-> DataFile], [q \in {} |-> DataFile]}

IdleProcess ==
    /\ file_ext = ".csv" /\ columns = {} /\ table = <<>>
    /\ pc = "idle" /\ idx = 1 /\ results = <<>> /\ run = 1
    /\ calls = <<>> /\ outcomes = <<>>

OverlayInit ==
    /\ image_path \in {PathAX, PathAY}
    /\ prompt_text \in Prompts
    /\ output_path \in {NonePath, PathOut}
    /\ fontAvail \in BOOLEAN
    /\ fs \in DisksFor(image_path) /\ fs0 = fs /\ fs1 = fs
    /\ dirs = InitDirs
    /\ opc = "call"
    /\ width = 0 /\ height = 0 /\ title_font_size = 0 /\ bullet_font_size = 0
    /\ truetype = FALSE /\ title_text_v = <<>> /\ title_width = 0
    /\ bullet_y_start = 0 /\ bullet_spacing = 0
    /\ start_size = 0 /\ iters = 0 /\ sizes = <<>>
    /\ ret = NonePath
    /\ IdleProcess

\* line 11 raises (no such file, or not an image): except branch, None
OpenFails ==
    /\ opc = "call" /\ ~CanOpen(fs, image_path)
    /\ ret' = NonePath /\ opc' = "returned"
    /\ UNCHANGED <<image_path, prompt_text, output_path, width, height,
                   title_font_size, bullet_font_size, truetype, title_text_v,
                   title_width, bullet_y_start, bullet_spacing, start_size, iters,
                   sizes, pvars, fontAvail>>

\* lines 11-32: open, size the fonts from the width, clamp, load the fonts
\* (the default font when arial.ttf cannot be loaded)
Open ==
    /\ opc = "call" /\ CanOpen(fs, image_path)
    /\ width' = fs[image_path].w /\ height' = fs[image_path].h
    /\ title_font_size' = ClampTitle(fs[image_path].w)
    /\ bullet_font_size' = ClampBullet(fs[image_path].w)
    /\ truetype' = fontAvail
    /\ opc' = "sized"
    /\ UNCHANGED <<image_path, prompt_text, output_path, title_text_v, title_width,
                   bullet_y_start, bullet_spacing, start_size, iters, sizes, ret,
                   pvars, fontAvail>>

\* line 35: prompt_text.lower() of a value that is not a string: None
TitleFails ==
    /\ opc = "sized" /\ prompt_text.kind # "str"
    /\ ret' = NonePath /\ opc' = "returned"
    /\ UNCHANGED <<image_path, prompt_text, output_path, width, height,
                   title_font_size, bullet_font_size, truetype, title_text_v,
                   title_width, bullet_y_start, bullet_spacing, start_size, iters,
                   sizes, pvars, fontAvail>>

\* lines 35-41: build the title and measure it
MeasureTitle ==
    /\ opc = "sized" /\ prompt_text.kind = "str"
    /\ title_text_v' = title_text(prompt_text.val)
    /\ title_width' = Measure(Len(title_text(prompt_text.val)), title_font_size, truetype)
    /\ start_size' = title_font_size
    /\ opc' = "shrink"
    /\ UNCHANGED <<image_path, prompt_text, output_path, width, height,
                   title_font_size, bullet_font_size, truetype,
                   bullet_y_start, bullet_spacing, iters, sizes, ret, pvars, fontAvail>>

\* lines 44-48: one iteration of the shrink loop
ShrinkStep ==
    /\ opc = "shrink" /\ ShrinkGuard(title_width, width, title_font_size)
    /\ fontAvail
    /\ title_font_size' = title_font_size - 2
    /\ truetype' = TRUE
    /\ title_width' = Measure(Len(title_text_v), title_font_size - 2, TRUE)
    /\ iters' = iters + 1
    /\ sizes' = Append(sizes, title_font_size)
    /\ UNCHANGED <<opc, image_path, prompt_text, output_path, width, height,
                   bullet_font_size, title_text_v, bullet_y_start, bullet_spacing,
                   start_size, ret, pvars, fontAvail>>

\* lines 45-46: the loop reloads arial.ttf outside the inner try; when the
\* font cannot be loaded the error reaches the outer except: None
ShrinkFontError ==
    /\ opc = "shrink" /\ ShrinkGuard(title_width, width, title_font_size)
    /\ ~fontAvail
    /\ title_font_size' = title_font_size - 2
    /\ ret' = NonePath /\ opc' = "returned"
    /\ UNCHANGED <<image_path, prompt_text, output_path, width, height,
                   bullet_font_size, truetype, title_text_v, title_width,
                   bullet_y_start, bullet_spacing, start_size, iters, sizes,
                   pvars, fontAvail>>

\* lines 50-92: the loop is left; positions of the title and the bullets
Layout ==
    /\ opc = "shrink" /\ ~ShrinkGuard(title_width, width, title_font_size)
    /\ bullet_y_start' = BulletYStart(height, title_font_size)
    /\ bullet_spacing' = BulletSpacing(height, title_font_size, bullet_font_size)
    /\ opc' = "save"
    /\ UNCHANGED <<image_path, prompt_text, output_path, width, height,
                   title_font_size, bullet_font_size, truetype, title_text_v,
                   title_width, start_size, iters, sizes, ret, pvars, fontAvail>>

\* lines 94-99: the output path, derived next to the image when not given
ChosenOutput == IF output_path = NonePath THEN DefaultOutputPath(image_path)
                ELSE output_path

\* lines 101-104: save and return the path
Save ==
    /\ opc = "save" /\ CanSave(fs, dirs, ChosenOutput)
    /\ fs' = WriteFile(fs, ChosenOutput,
                ImageFile(width, height,
                   Append(fs[image_path].layers,
                      [title |-> title_text_v, title_font_size |-> title_font_size,
                       bullet_font_size |-> bullet_font_size, truetype |-> truetype,
                       bullet_y_start |-> bullet_y_start,
                       bullet_spacing |-> bullet_spacing])))
    /\ ret' = ChosenOutput /\ opc' = "returned"
    /\ UNCHANGED <<image_path, prompt_text, output_path, width, height,
                   title_font_size, bullet_font_size, truetype, title_text_v,
                   title_width, bullet_y_start, bullet_spacing, start_size, iters,
                   sizes, file_ext, columns, table, dirs, pc, idx, results, run,
                   fs0, fs1, calls, outcomes, fontAvail>>

\* line 102 raises (no format for the extension): None, nothing written
SaveFails ==
    /\ opc = "save" /\ ~CanSave(fs, dirs, ChosenOutput)
    /\ ret' = NonePath /\ opc' = "returned"
    /\ UNCHANGED <<image_path, prompt_text, output_path, width, height,
                   title_font_size, bullet_font_size, truetype, title_text_v,
                   title_width, bullet_y_start, bullet_spacing, start_size, iters,
                   sizes, pvars, fontAvail>>

OverlayNext ==
    \/ OpenFails
    \/ Open
    \/ TitleFails
    \/ MeasureTitle
    \/ ShrinkStep
    \/ ShrinkFontError
    \/ Layout
    \/ Save
    \/ SaveFails

OverlaySpec == OverlayInit /\ [][OverlayNext]_vars

\* the stepped call returns what the operator Overlay computes
StepsAgreeWithOverlay ==
    opc = "returned" =>
        LET o == Overlay(fs0, dirs, image_path, prompt_text, output_path, fontAvail)
        IN  ret = o.ret /\ fs = o.fs

\* ================================================================ claims
HasCols == {image_col, prompt_col} \subseteq columns

RunEnded == pc \in {"done", "raised"}

\* the font sizes have been computed and clamped in this call
Sized == opc \in {"sized", "shrink", "save"} \/ (opc = "returned" /\ bullet_font_size # 0)

\* C1: once the sizes are clamped, and through and after the shrink loop,
\* the title font size is within [16, 80] and the bullet font size within
\* [16, 60]
C1_FontSizesInRange ==
    Sized => /\ title_font_size \in 16..80
             /\ bullet_font_size \in 16..60

\* C8: when the shrink loop is left it has run at most 32 times, went down
\* from clamp(5% of width, 20, 80) by exactly 2 per iteration, left every
\* earlier size because the title measured wider than 80% of the width, and
\* stands at a size where the title fits or at the 16px floor
C8_ShrinkLoop ==
    opc = "save" =>
        /\ iters <= 32
        /\ start_size = ClampTitle(width)
        /\ title_font_size = start_size - 2 * iters
        /\ Len(sizes) = iters
        /\ \A i \in 1..iters :
              /\ sizes[i] = start_size - 2 * (i - 1)
              /\ 10 * Measure(Len(title_text_v), sizes[i], TRUE) > 8 * width
        /\ \/ 10 * title_width <= 8 * width
           \/ title_font_size = 16

\* C10: the bullet spacing is strictly positive, so the five bullets are at
\* strictly increasing vertical positions, none above
\* title top + 1.2 x title font size + 2% of the height
C10_BulletsDescendBelowTitle ==
    opc = "save" =>
        /\ bullet_spacing > 0
        /\ \A i \in 1..4 :
              BulletY(i + 1, bullet_y_start, bullet_spacing)
                 > BulletY(i, bullet_y_start, bullet_spacing)
        /\ \A i \in 1..5 :
              BulletY(i, bullet_y_start, bullet_spacing)
                 >= 25 * height + 600 * title_font_size + 10 * height

\* C2: with a readable table that has both columns, no row makes
\* process_file raise: every row is handled and the summary is written
C2_RowFailureNeverAborts ==
    (Supported(file_ext) /\ HasCols) =>
        /\ pc # "raised"
        /\ pc = "done" => /\ Len(outcomes) = Len(table)
                          /\ results_path \in DOMAIN fs

\* C3: a table that lacks image_location or prompt_text makes process_file
\* raise before anything is done: the annotator is not called, no output
\* directory and no summary file appear, the run does not complete
C3_MissingColumnsAbortFirst ==
    ~HasCols =>
        /\ pc # "done"
        /\ calls = <<>>
        /\ output_dir \notin dirs
        /\ results_path \notin DOMAIN fs

\* C5: a completed run has written processing_results.csv with the columns
\* original_image, prompt, modified_image
C5_SummaryHasColumns ==
    pc = "done" =>
        /\ results_path \in DOMAIN fs
        /\ fs[results_path].kind = "csv"
        /\ fs[results_path].columns = <<"original_image", "prompt", "modified_image">>

\* C9: in a completed run any two summary entries for different original
\* images have different modified_image paths, and the file at each entry's
\* path is the annotation of that entry's own original image
C9_EntriesOwnTheirOutput ==
    pc = "done" =>
        /\ \A i, j \in 1..Len(results) :
              results[i].original_image # results[j].original_image
                 => results[i].modified_image # results[j].modified_image
        /\ \A i \in 1..Len(results) :
              /\ results[i].modified_image \in DOMAIN fs
              /\ fs[results[i].modified_image].w = fs[results[i].original_image].w
              /\ fs[results[i].modified_image].h = fs[results[i].original_image].h

\* row i was processed successfully: the annotator returned a path
Succeeded(i) == outcomes[i].kind = "returned" /\ outcomes[i].ret # NonePath

\* modified_images/<name>_modified<ext> for the row's image path
DerivedFor(p) == [dir |-> <<"modified_images">>, stem |-> p.stem \o <<"_modified">>, ext |-> p.ext]

RECURSIVE ExpectedSummary(_)
ExpectedSummary(i) ==
    IF i > Len(table) THEN <<>>
    ELSE (IF Succeeded(i)
          THEN <<[original_image |-> table[i][image_col].val,
                  prompt |-> table[i][prompt_col].val,
                  modified_image |-> DerivedFor(table[i][image_col].val)]>>
          ELSE <<>>) \o ExpectedSummary(i + 1)

\* C4: after a completed run the summary is, in table order, one entry
\* (image path, prompt, modified_images/<name>_modified<ext>) per row the
\* annotator succeeded on and nothing else; that path is what the annotator
\* returned for the row, and the summary file holds exactly these entries
C4_SummaryIsSuccessfulRows ==
    pc = "done" =>
        /\ Len(outcomes) = Len(table)
        /\ results = ExpectedSummary(1)
        /\ fs[results_path].rows = ExpectedSummary(1)
        /\ \A i \in 1..Len(table) :
              Succeeded(i) => /\ outcomes[i].ret = DerivedFor(table[i][image_col].val)
                              /\ outcomes[i].ret \in DOMAIN fs

\* a completed run with a row that succeeded and a row that did not
C4_Witness ==
    /\ pc = "done"
    /\ Len(results) >= 1
    /\ Len(results) < Len(table)

\* the row's image path or prompt is empty
EmptyRow(row) == row[image_col].kind = "nan" \/ row[prompt_col].kind = "nan"
NonEmptyRow(row) == ~EmptyRow(row)

\* the row loop and the summary on a table without empty rows, as a function
RECURSIVE RunRows(_, _, _, _)
RunRows(rows, i, f, res) ==
    IF i > Len(rows)
    THEN [pc |-> "done", results |-> res,
          fs |-> WriteFile(f, results_path, TableFile(ColumnsOf(res), res))]
    ELSE IF rows[i][image_col].kind # "str"
    THEN [pc |-> "raised", results |-> res, fs |-> f]
    ELSE LET p == rows[i][image_col].val
             o == Overlay(f, dirs, p, rows[i][prompt_col],
                          DerivedFor(p), fontAvail)
         IN  RunRows(rows, i + 1, o.fs,
                     IF o.ret # NonePath
                     THEN Append(res, [original_image |-> p,
                                       prompt |-> rows[i][prompt_col].val,
                                       modified_image |-> o.ret])
                     ELSE res)

\* the loop stands at a row whose image path or prompt is empty
AtEmptyRow == pc = "rows" /\ idx <= Len(table) /\ HasCols /\ EmptyRow(table[idx])

\* the run ends as it would on the table with the empty rows removed
EndsAsWithoutEmptyRows ==
    (HasCols /\ Supported(file_ext) /\ RunEnded) =>
        LET r == RunRows(SelectSeq(table, NonEmptyRow), 1, fs0, <<>>)
        IN  r.pc = pc /\ r.results = results /\ r.fs = fs

\* C7: a row with an empty image path or prompt is passed over: the step
\* over it raises nothing, calls no annotator, writes no file and adds no
\* summary entry; and the run ends exactly as it would on the table without
\* its empty rows
C7_EmptyRowsAreSkipped ==
    /\ [][AtEmptyRow => /\ pc' = "rows" /\ idx' = idx + 1
                        /\ calls' = calls /\ fs' = fs /\ results' = results]_vars
    /\ []EndsAsWithoutEmptyRows

\* a completed run that skipped an empty row and recorded another row
C7_Witness ==
    /\ pc = "done" /\ HasCols
    /\ \E i \in 1..Len(table) : EmptyRow(table[i])
    /\ Len(results) >= 1

\* C6 as stated: after the second run the disk (output files and summary)
\* is what it was after the first run, for every table
C6_Original ==
    (run = 2 /\ RunEnded) => fs = fs1

\* row i reads the file row j writes
Feeds(j, i) ==
    /\ HasCols
    /\ table[i][image_col].kind = "str" /\ table[j][image_col].kind = "str"
    /\ table[i][image_col].val = DerivedFor(table[j][image_col].val)

\* no row's image path is the output path of a later row
NoRowReadsLaterOutput ==
    \A i, j \in 1..Len(table) : (i < j /\ HasCols) => ~Feeds(j, i)

\* C6 amended: after the second run the disk is what it was after the first
\* run, for every table in which no row's image path is the output path of
\* a later row
C6_Idempotent ==
    (run = 2 /\ RunEnded /\ NoRowReadsLaterOutput) => fs = fs1

\* a second completed run in which a row read the output of an earlier row
C6_Witness ==
    /\ run = 2 /\ pc = "done" /\ Len(results) = 2
    /\ \E i, j \in 1..Len(table) : j < i /\ Feeds(j, i)

====
